---- MODULE Spec2Model ----
(***************************************************************************)
(* Model of InteractiveHtmlBom/ecad/ipc2581.py (class IPC2581Parser).      *)
(*                                                                         *)
(* The parser keeps no state between invocations, so every method is       *)
(* modelled as an operator computing its outcome, and the state machine    *)
(* is a caller that picks a method and an input (Init) and then applies    *)
(* the method (one action per method).                                     *)
(*                                                                         *)
(* Conventions                                                             *)
(*   - A Python call ends in Return(v) or in Raise(exception name).        *)
(*   - Python None is the empty tuple <<>>, a value v that may be None is  *)
(*     Some(v) = <<v>>.                                                    *)
(*   - An XML element is a record of its attributes (strings, '' when the  *)
(*     attribute is missing, as minidom's getAttribute returns) and of     *)
(*     the element lists getElementsByTagName would return below it.       *)
(*   - Coordinates are integers; float() is modelled on numeral strings.   *)
(*   - sqrt(k) is kept exact as SqrtOf(k); b + s*atan(n/d) degrees is kept *)
(*     exact as Angle(b, s, n, d).                                         *)
(*   - Outline widths are in thousandths of a document unit.               *)
(*   - Line 85 of the source is an elif without a body, which Python       *)
(*     rejects when it compiles the file. The model reads that branch as   *)
(*     empty and follows every other statement as written.                 *)
(***************************************************************************)
EXTENDS Integers, Sequences, FiniteSets, TLC

VARIABLES pc, op, arg, ret, lines_Dict

vars == <<pc, op, arg, ret, lines_Dict>>

(* ------------------------------ bounds -------------------------------- *)

MaxCoord == 2

MaxSteps == 3

MaxLineTo == 4

MaxLayers == 3

MaxFeatures == 1

MaxPolylines == 2

MaxAttrs == 3

MaxComponents == 1

(* --------------------------- Python outcomes -------------------------- *)

None == <<>>

Some(v) == <<v>>

Return(v) == [status |-> "return", exc |-> "", value |-> v]

Raise(e) == [status |-> "raise", exc |-> e, value |-> <<>>]

NoResult == [status |-> "pending", exc |-> "", value |-> <<>>]

Returned(r) == r.status = "return"

Raised(r) == r.status = "raise"

(* sequencing of two calls: an exception raised by the first propagates *)
Then(r, K(_)) == IF Raised(r) THEN r ELSE K(r.value)

SeqsUpTo(S, n) == UNION {[1..k -> S] : k \in 0..n}

(* dict.update({k: v}): the new pair overrides an existing key *)
DictUpdate(d, k, v) == [x \in (DOMAIN d) \cup {k} |-> IF x = k THEN v ELSE d[x]]

EmptyDict == [x \in {} |-> ""]

(* ------------------------------ numbers ------------------------------- *)

abs(x) == IF x < 0 THEN -x ELSE x

SqrtOf(k) == [sqrt_of |-> k]

Angle(b, s, n, d) == [base |-> b, sign |-> s, atan_num |-> n, atan_den |-> d]

(* float(str): numerals parse, anything else ('' for a missing attribute) *)
(* raises ValueError                                                      *)
float(s) ==
    CASE s = "-2" -> Return(-2)
      [] s = "-1" -> Return(-1)
      [] s = "0" -> Return(0)
      [] s = "1" -> Return(1)
      [] s = "2" -> Return(2)
      [] s = "3" -> Return(3)
      [] OTHER -> Raise("ValueError")

ELEMENT_NODE == 1

TEXT_NODE == 3

(* ------------------------ convert_PolyStepCurve ----------------------- *)

(* lines 154-178: the locals bound by the start-spoke block *)
StartSpoke(dX1, dY1) ==
    IF (dX1 = 0) \/ (dY1 = 0)
    THEN IF dX1 = 0
         THEN [radius |-> SqrtOf(abs(dY1) * abs(dY1)),
               angle1 |-> IF dY1 > 0 THEN 270 ELSE 90,
               startAngle |-> None]
         ELSE [radius |-> SqrtOf(abs(dX1) * abs(dX1)),
               angle1 |-> IF dX1 > 0 THEN 0 ELSE 180,
               startAngle |-> None]
    ELSE [radius |-> SqrtOf(abs(dX1) * abs(dX1) + abs(dY1) * abs(dY1)),
          angle1 |-> Angle(0, 1, abs(dX1), abs(dY1)),
          startAngle |->
             IF (dX1 > 0) /\ (dY1 > 0) THEN Some(Angle(270, 1, abs(dX1), abs(dY1)))
             ELSE IF (dX1 < 0) /\ (dY1 > 0) THEN Some(Angle(270, -1, abs(dX1), abs(dY1)))
             ELSE IF (dX1 < 0) /\ (dY1 < 0) THEN Some(Angle(90, 1, abs(dX1), abs(dY1)))
             ELSE Some(Angle(90, -1, abs(dX1), abs(dY1)))]

(* lines 180-203: the locals after the end-spoke block; radius is only *)
(* reassigned in the axis-aligned branch                                *)
EndSpoke(dX2, dY2, radius) ==
    IF (dX2 = 0) \/ (dY2 = 0)
    THEN IF dX2 = 0
         THEN [radius |-> SqrtOf(abs(dY2) * abs(dY2)),
               angle2 |-> IF dY2 > 0 THEN 270 ELSE 90,
               endAngle |-> None]
         ELSE [radius |-> SqrtOf(abs(dX2) * abs(dX2)),
               angle2 |-> IF dX2 > 0 THEN 0 ELSE 180,
               endAngle |-> None]
    ELSE [radius |-> radius,
          angle2 |-> Angle(0, 1, abs(dX2), abs(dY2)),
          endAngle |->
             IF (dX2 > 0) /\ (dY2 > 0) THEN Some(Angle(270, 1, abs(dX2), abs(dY2)))
             ELSE IF (dX2 < 0) /\ (dY2 > 0) THEN Some(Angle(270, -1, abs(dX2), abs(dY2)))
             ELSE IF (dX2 < 0) /\ (dY2 < 0) THEN Some(Angle(90, 1, abs(dX2), abs(dY2)))
             ELSE Some(Angle(90, -1, abs(dX2), abs(dY2)))]

(* Reading a local that no branch has bound raises UnboundLocalError. *)
convert_PolyStepCurve(startX, startY, ctrX, ctrY, endX, endY, cw) ==
    LET dX1 == ctrX - startX
        dY1 == ctrY - startY
        dX2 == ctrX - endX
        dY2 == ctrY - endY
        s == StartSpoke(dX1, dY1)
        e == EndSpoke(dX2, dY2, s.radius)
    IN  IF cw = "true"
        THEN IF s.startAngle = None THEN Raise("UnboundLocalError")
             ELSE IF e.endAngle = None THEN Raise("UnboundLocalError")
             ELSE Return(<<e.radius, s.startAngle[1], e.endAngle[1]>>)
        ELSE IF e.endAngle = None THEN Raise("UnboundLocalError")
             ELSE IF s.startAngle = None THEN Raise("UnboundLocalError")
             ELSE Return(<<e.radius, e.endAngle[1], s.startAngle[1]>>)

(* --------------------------- process_PolyStep ------------------------- *)

Segment(LastX, LastY, NewX, NewY, width) ==
    [type |-> "segment", start |-> <<LastX, LastY>>, end |-> <<NewX, NewY>>,
     wdith |-> width]

Arc(CtrX, CtrY, a, width) ==
    [type |-> "arc", width |-> width, start |-> <<CtrX, CtrY>>,
     radius |-> a[1], startangle |-> a[2], endangle |-> a[3]]

RECURSIVE PolyStepLoop(_, _, _, _, _, _)
(* the for loop of lines 218-248 from child i on, with the running point *)
(* (NewX, NewY) and the list e                                           *)
PolyStepLoop(childNodes, i, NewX, NewY, e, width) ==
    IF i > Len(childNodes) THEN Return(e)
    ELSE
    LET p == childNodes[i] IN
    IF p.nodeType # ELEMENT_NODE
    THEN PolyStepLoop(childNodes, i + 1, NewX, NewY, e, width)
    ELSE
    LET LastX == NewX
        LastY == NewY
        pname == p.tagName
    IN  IF pname = "PolyBegin"
        THEN Then(float(p.x), LAMBDA x :
             Then(float(p.y), LAMBDA y :
             PolyStepLoop(childNodes, i + 1, x, y, e, width)))
        ELSE IF pname = "PolyStepSegment"
        THEN Then(float(p.x), LAMBDA x :
             Then(float(p.y), LAMBDA y :
             PolyStepLoop(childNodes, i + 1, x, y,
                          Append(e, Segment(LastX, LastY, x, y, width)), width)))
        ELSE IF pname = "PolyStepCurve"
        THEN Then(float(p.x), LAMBDA x :
             Then(float(p.y), LAMBDA y :
             Then(float(p.centerX), LAMBDA CtrX :
             Then(float(p.centerY), LAMBDA CtrY :
             Then(convert_PolyStepCurve(LastX, LastY, CtrX, CtrY, x, y, p.clockwise),
                  LAMBDA arc :
             PolyStepLoop(childNodes, i + 1, x, y,
                          Append(e, Arc(CtrX, CtrY, arc, width)), width))))))
        ELSE PolyStepLoop(childNodes, i + 1, NewX, NewY, e, width)

process_PolyStep(n, width) == PolyStepLoop(n.childNodes, 1, 0, 0, <<>>, width)

(* ------------------------- path instruction nodes --------------------- *)

PolyBegin(x, y) ==
    [nodeType |-> ELEMENT_NODE, tagName |-> "PolyBegin", x |-> x, y |-> y,
     centerX |-> "", centerY |-> "", clockwise |-> ""]

PolyStepSegment(x, y) ==
    [nodeType |-> ELEMENT_NODE, tagName |-> "PolyStepSegment", x |-> x, y |-> y,
     centerX |-> "", centerY |-> "", clockwise |-> ""]

PolyStepCurve(x, y, cx, cy, cw) ==
    [nodeType |-> ELEMENT_NODE, tagName |-> "PolyStepCurve", x |-> x, y |-> y,
     centerX |-> cx, centerY |-> cy, clockwise |-> cw]

TextNode ==
    [nodeType |-> TEXT_NODE, tagName |-> "", x |-> "", y |-> "",
     centerX |-> "", centerY |-> "", clockwise |-> ""]

OtherElement(tag) ==
    [nodeType |-> ELEMENT_NODE, tagName |-> tag, x |-> "", y |-> "",
     centerX |-> "", centerY |-> "", clockwise |-> ""]

(* ----------------------------- get_LayerNames ------------------------- *)

LayerRoles(TopCuRef, BotCuRef, TopSilkRef, BotSilkRef, TopAsmRef, BotAsmRef) ==
    [TopCuRef |-> TopCuRef, BotCuRef |-> BotCuRef, TopSilkRef |-> TopSilkRef,
     BotSilkRef |-> BotSilkRef, TopAsmRef |-> TopAsmRef, BotAsmRef |-> BotAsmRef]

(* LayerStep with a slot kept once it is set: the first declaration wins *)
LayerStepFirstWins(r, Layers) ==
    LET ls == Layers.side
        lf == Layers.layerFunction
        slot == IF ls = "TOP"
                THEN IF lf = "DOCUMENT" THEN "TopSilkRef"
                     ELSE IF lf = "CONDUCTOR" THEN "TopCuRef"
                     ELSE IF lf = "ASSEMBLY" THEN "TopAsmRef"
                     ELSE ""
                ELSE IF ls = "BOTTOM"
                THEN IF lf = "DOCUMENT" THEN "BotSilkRef"
                     ELSE IF lf = "CONDUCTOR" THEN "BotCuRef"
                     ELSE IF lf = "ASSEMBLY" THEN "BotAsmRef"
                     ELSE ""
                ELSE ""
    IN  IF slot = "" THEN r
        ELSE IF r[slot] # None THEN r
        ELSE [r EXCEPT ![slot] = Some(Layers.name)]

(* one iteration of the loop of lines 132-142 *)
LayerStep(r, Layers) ==
    LET ls == Layers.side
        lf == Layers.layerFunction
    IN  IF ls = "TOP"
        THEN IF lf = "DOCUMENT" THEN [r EXCEPT !.TopSilkRef = Some(Layers.name)]
             ELSE IF lf = "CONDUCTOR" THEN [r EXCEPT !.TopCuRef = Some(Layers.name)]
             ELSE IF lf = "ASSEMBLY" THEN [r EXCEPT !.TopAsmRef = Some(Layers.name)]
             ELSE r
        ELSE IF ls = "BOTTOM"
        THEN IF lf = "DOCUMENT" THEN [r EXCEPT !.BotSilkRef = Some(Layers.name)]
             ELSE IF lf = "CONDUCTOR" THEN [r EXCEPT !.BotCuRef = Some(Layers.name)]
             ELSE IF lf = "ASSEMBLY" THEN [r EXCEPT !.BotAsmRef = Some(Layers.name)]
             ELSE r
        ELSE r

RECURSIVE LayerLoop(_, _, _)
LayerLoop(layers, i, r) ==
    IF i > Len(layers) THEN r
    ELSE LayerLoop(layers, i + 1, LayerStep(r, layers[i]))

get_LayerNames(pcb) ==
    Return(LayerLoop(pcb.Layer, 1, LayerRoles(None, None, None, None, None, None)))

(* ----------------------------- get_Line_Widths ------------------------ *)

RECURSIVE LineWidthLoop(_, _, _)
(* lines 63-64; l.getElementsByTagName('LineDesc')[0] raises IndexError *)
(* when the entry has no LineDesc                                       *)
LineWidthLoop(entries, i, lines) ==
    IF i > Len(entries) THEN Return(lines)
    ELSE IF Len(entries[i].LineDesc) = 0 THEN Raise("IndexError")
    ELSE LineWidthLoop(entries, i + 1,
             DictUpdate(lines, entries[i].id, entries[i].LineDesc[1].lineWidth))

get_Line_Widths(pcb) == LineWidthLoop(pcb.EntryLineDesc, 1, EmptyDict)

(* ----------------------------- get_LayerDrawings ---------------------- *)

(* LookupLineWidth as lines.get(LineName, '0'): a miss defaults the width *)
LookupLineWidthDefault(lines, LineName) ==
    IF LineName \in DOMAIN lines THEN Return(lines[LineName])
    ELSE Return("0")

(* line 297, lines[LineName] *)
LookupLineWidth(lines, LineName) ==
    IF LineName \in DOMAIN lines THEN Return(lines[LineName])
    ELSE Raise("KeyError")

RECURSIVE PolylineLoop(_, _, _, _)
(* the loop of lines 294-300 over the polylines of one LayerFeature;  *)
(* poly.getElementsByTagName('LineDescRef')[0] raises IndexError when *)
(* the polyline has no LineDescRef                                    *)
PolylineLoop(polys, j, lines, drawings) ==
    IF j > Len(polys) THEN Return(drawings)
    ELSE IF Len(polys[j].LineDescRef) = 0 THEN Raise("IndexError")
    ELSE Then(LookupLineWidth(lines, polys[j].LineDescRef[1].id), LAMBDA LineWidth :
         Then(process_PolyStep(polys[j], LineWidth), LAMBDA ps :
         PolylineLoop(polys, j + 1, lines, drawings \o ps)))

RECURSIVE FeatureLoop(_, _, _, _, _)
(* the loop of lines 290-300 over the LayerFeature elements *)
FeatureLoop(features, i, layerName, lines, drawings) ==
    IF i > Len(features) THEN Return(drawings)
    ELSE IF Some(features[i].layerRef) = layerName
    THEN Then(PolylineLoop(features[i].Polyline, 1, lines, drawings), LAMBDA d :
         FeatureLoop(features, i + 1, layerName, lines, d))
    ELSE FeatureLoop(features, i + 1, layerName, lines, drawings)

get_LayerDrawings(pcb, layerName, lines) ==
    IF layerName # None
    THEN FeatureLoop(pcb.LayerFeature, 1, layerName, lines, <<>>)
    ELSE Return(<<>>)

(* --------------------------- Component extraction --------------------- *)

RECURSIVE ComponentValLoopBreak(_, _, _)
(* ComponentValLoop leaving the loop at the first VALUE attribute *)
ComponentValLoopBreak(attrs, i, val) ==
    IF i > Len(attrs) THEN val
    ELSE IF attrs[i].name = "VALUE" THEN attrs[i].value
    ELSE ComponentValLoopBreak(attrs, i + 1, val)

RECURSIVE ComponentValLoop(_, _, _)
(* the loop of lines 108-109 from attribute i on *)
ComponentValLoop(attrs, i, val) ==
    IF i > Len(attrs) THEN val
    ELSE ComponentValLoop(attrs, i + 1,
             IF attrs[i].name = "VALUE" THEN attrs[i].value ELSE val)

get_Component_Val(comp) ==
    Return(ComponentValLoop(comp.NonstandardAttribute, 1, comp.part))

RECURSIVE ExtraFieldsLoop(_, _, _)
(* lines 392-397 *)
ExtraFieldsLoop(NSAttr, i, extra_fields) ==
    IF i > Len(NSAttr) THEN extra_fields
    ELSE ExtraFieldsLoop(NSAttr, i + 1,
             DictUpdate(extra_fields, NSAttr[i].name, NSAttr[i].value))

(* the Component(...) constructor call of lines 398-403 *)
Component(ref, val, footprint, layer, attr, extra_fields) ==
    [ref |-> ref, val |-> val, footprint |-> footprint, layer |-> layer,
     attr |-> attr, extra_fields |-> extra_fields]

RECURSIVE ComponentLoop(_, _, _)
(* lines 388-404 *)
ComponentLoop(comp_xml, i, components) ==
    IF i > Len(comp_xml) THEN components
    ELSE LET c == comp_xml[i]
             attr == "Normal"
             extra_fields == ExtraFieldsLoop(c.NonstandardAttribute, 1, EmptyDict)
             component == Component(c.refDes, get_Component_Val(c).value,
                                    c.packageRef, c.layerRef, attr, extra_fields)
         IN  ComponentLoop(comp_xml, i + 1, Append(components, component))

ExtractComponents(pcb) == ComponentLoop(pcb.Component, 1, <<>>)

(* ----------------------------- validate_IPC2581 ---------------------- *)

COMPATIBLE_IPC_REV == "C"

(* the code points of the revision strings the model uses *)
CodePoints(str) ==
    CASE str = "" -> <<>>
      [] str = "A" -> <<65>>
      [] str = "B" -> <<66>>
      [] str = "C" -> <<67>>
      [] str = "D" -> <<68>>
      [] str = "B2" -> <<66, 50>>
      [] str = "C1" -> <<67, 49>>
      [] str = "c" -> <<99>>
      [] str = "1.0" -> <<49, 46, 48>>

RECURSIVE SeqGT(_, _, _)
(* Python's str > str: the first differing code point decides, and a *)
(* proper prefix is the smaller string                               *)
SeqGT(a, b, i) ==
    IF i > Len(a) THEN FALSE
    ELSE IF i > Len(b) THEN TRUE
    ELSE IF a[i] # b[i] THEN a[i] > b[i]
    ELSE SeqGT(a, b, i + 1)

StrGT(a, b) == SeqGT(CodePoints(a), CodePoints(b), 1)

validate_IPC2581(pcb) ==
    IF pcb.firstChild.tagName # "IPC-2581" THEN FALSE
    ELSE LET IPC_rev == pcb.firstChild.revision
         IN  IF StrGT(IPC_rev, COMPATIBLE_IPC_REV) THEN FALSE
             ELSE TRUE

(* ------------------------ get_Shapes, get_Metadata -------------------- *)

RECURSIVE ShapeLoop(_, _, _, _, _)
(* lines 79-86; the RectCenter branch has no statement in its body, so  *)
(* type and size keep what an earlier iteration bound, and line 86      *)
(* reads them: UnboundLocalError when nothing has bound them yet        *)
ShapeLoop(entries, i, shapes, type, size) ==
    IF i > Len(entries) THEN Return(shapes)
    ELSE LET shape == entries[i]
             sn == shape.id
             type1 == IF Len(shape.Circle) > 0 THEN Some("circle") ELSE type
             size1 == IF Len(shape.Circle) > 0
                      THEN Some(<<shape.Circle[1].diameter, shape.Circle[1].diameter>>)
                      ELSE size
         IN  IF type1 = None THEN Raise("UnboundLocalError")
             ELSE ShapeLoop(entries, i + 1,
                      DictUpdate(shapes, sn, <<type1[1], size1[1]>>), type1, size1)

get_Shapes(pcb) == ShapeLoop(pcb.EntryStandard, 1, EmptyDict, None, None)

get_Metadata(pcb) ==
    IF Len(pcb.StepRef) = 0 THEN Raise("IndexError")
    ELSE Return(<<pcb.StepRef[1].name, "", "", "">>)

(* ----------------------------- set_outlineWidth ----------------------- *)

OutlineWidthInch == 5

OutlineWidthMillimeter == 127

OutlineWidthMicron == 127000

(* line 313 calls pcb.getElementByTagName; minidom's Document has      *)
(* getElementsByTagName only, so the attribute lookup raises            *)
getElementByTagName(pcb, tag) == Raise("AttributeError")

(* lines 313-320: the if/elif chain has no else, so any other units *)
(* string falls off the end of the function and None is returned    *)
WidthOfUnits(CadHeader) ==
    IF Len(CadHeader) = 0 THEN Raise("IndexError")
    ELSE IF CadHeader[1].units = "INCH" THEN Return(OutlineWidthInch)
    ELSE IF CadHeader[1].units = "MILLIMETER" THEN Return(OutlineWidthMillimeter)
    ELSE IF CadHeader[1].units = "MICRON" THEN Return(OutlineWidthMicron)
    ELSE Return(None)

set_outlineWidth(pcb) ==
    Then(getElementByTagName(pcb, "CadHeader"), LAMBDA CadHeader :
    WidthOfUnits(CadHeader))

(* ----------------------------- get_Board_Outline ---------------------- *)

RECURSIVE CutoutLoop(_, _, _, _)
(* lines 269-272 *)
CutoutLoop(cutouts, i, outline_width, outline) ==
    IF i > Len(cutouts) THEN Return(outline)
    ELSE Then(process_PolyStep(cutouts[i], outline_width), LAMBDA ps :
         CutoutLoop(cutouts, i + 1, outline_width, outline \o ps))

get_Board_Outline(pcb) ==
    IF Len(pcb.Profile) = 0 THEN Raise("IndexError")
    ELSE Then(set_outlineWidth(pcb), LAMBDA outline_width :
         IF Len(pcb.Profile[1].Polygon) = 0 THEN Raise("IndexError")
         ELSE Then(process_PolyStep(pcb.Profile[1].Polygon[1], outline_width),
              LAMBDA outline :
              CutoutLoop(pcb.Profile[1].Cutout, 1, outline_width, outline)))

(* ------------------------------ _parse, parse ------------------------- *)

(* self.get_Footprints is not defined in IPC2581Parser; pads and shapes *)
(* are not reconstructed, so it contributes no footprint                *)
get_Footprints(pcb, lines, shapes) == Return(<<>>)

(* the layer names in the order the dict literal of lines 354-385 asks *)
(* for their drawings: silkscreen F, B, fabrication F, B, tracks F, B   *)
DrawingOrder(roles, include_tracks) ==
    <<roles.TopSilkRef, roles.BotSilkRef, roles.TopAsmRef, roles.BotAsmRef>>
    \o (IF include_tracks THEN <<roles.TopCuRef, roles.BotCuRef>> ELSE <<>>)

RECURSIVE DrawingsLoop(_, _, _, _, _)
(* the get_LayerDrawings calls for names[k..], each one's list appended *)
DrawingsLoop(pcb, names, k, lines, done) ==
    IF k > Len(names) THEN Return(done)
    ELSE Then(get_LayerDrawings(pcb, names[k], lines), LAMBDA d :
         DrawingsLoop(pcb, names, k + 1, lines, Append(done, d)))

(* the dict of lines 354-385 from the values its entries evaluated to *)
Pcbdata(include_tracks, edges, d, fp, t, meta) ==
    [edges_bbox |-> None,
     edges |-> edges,
     silkscreen |-> [F |-> d[1], B |-> d[2]],
     fabrication |-> [F |-> d[3], B |-> d[4]],
     footprints |-> fp,
     title |-> meta[1],
     tracks |-> IF include_tracks THEN Some([F |-> t[1], B |-> t[2]]) ELSE None]

(* lines 354-385: the dict literal evaluates its values in the order    *)
(* written, get_Footprints after the four drawing sets, then the tracks *)
BuildPcbdata(pcb, include_tracks, lines, shapes, roles, meta, edges) ==
    Then(DrawingsLoop(pcb, SubSeq(DrawingOrder(roles, include_tracks), 1, 4), 1,
                      lines, <<>>), LAMBDA d :
    Then(get_Footprints(pcb, lines, shapes), LAMBDA fp :
    Then(DrawingsLoop(pcb, SubSeq(DrawingOrder(roles, include_tracks), 5, 6), 1,
                      lines, <<>>), LAMBDA t :
    Return(Pcbdata(include_tracks, edges, d, fp, t, meta)))))

(* lines 323-410; the ExpatError handler and a failed validation both *)
(* return (None, None)                                                *)
_parse(self) ==
    IF ~self.file.wellFormed THEN Return(<<None, None>>)
    ELSE IF ~validate_IPC2581(self.file) THEN Return(<<None, None>>)
    ELSE Then(get_Line_Widths(self.file), LAMBDA lines_D :
         Then(get_Shapes(self.file), LAMBDA shape_Dict :
         Then(get_LayerNames(self.file), LAMBDA roles :
         Then(get_Metadata(self.file), LAMBDA meta :
         Then(get_Board_Outline(self.file), LAMBDA edges :
         Then(BuildPcbdata(self.file, self.include_tracks, lines_D, shape_Dict,
                           roles, meta, edges), LAMBDA pcbdata :
         Return(<<Some(pcbdata), Some(ExtractComponents(self.file))>>)))))))

(* BoundingBox and add_drawing_bounding_box live in .common; the fold of *)
(* lines 416-420 is kept as an uninterpreted function of the edges, and  *)
(* an empty fold leaves the box uninitialized                            *)
BoundingBoxOf(edges) ==
    IF Len(edges) = 0 THEN None ELSE Some([bbox_of |-> edges])

(* lines 416-422 on the pair _parse returned; pcbdata['edges'] on None *)
(* raises TypeError                                                    *)
FoldBoundingBox(pcbdata, components) ==
    IF pcbdata = None THEN Raise("TypeError")
    ELSE Return(<<Some([pcbdata[1] EXCEPT
                          !.edges_bbox = BoundingBoxOf(pcbdata[1].edges)]),
                  components>>)

parse(self) ==
    Then(_parse(self), LAMBDA r : FoldBoundingBox(r[1], r[2]))

(* ================================ inputs ============================== *)

Coord == (0 - MaxCoord)..MaxCoord

CurveArgs ==
    [startX : Coord, startY : Coord, ctrX : Coord, ctrY : Coord,
     endX : Coord, endY : Coord, cw : {"true", "false", ""}]

GridStr == {"0", "1"}

PolyNodes ==
    {PolyBegin(x, y) : x \in GridStr, y \in GridStr}
    \cup {PolyStepSegment(x, y) : x \in GridStr, y \in GridStr}
    \cup {PolyStepCurve("2", "3", "1", "1", cw) : cw \in {"true", "false"}}
    \cup {PolyStepCurve("1", "0", "0", "0", "false"), PolyBegin("", "0"),
          PolyStepSegment("1", ""), PolyStepCurve("1", "1", "x", "0", "true"),
          TextNode, OtherElement("LineDescRef")}

(* one PolyBegin followed by n >= 1 PolyStepSegment *)
BeginLineToSeqs ==
    {<<b>> \o t : b \in {PolyBegin(x, y) : x \in GridStr, y \in GridStr},
                  t \in UNION {[1..k -> {PolyStepSegment(x, y) : x \in GridStr,
                                                                 y \in GridStr}]
                               : k \in 1..MaxLineTo}}

PolyStepArgs ==
    [n : [childNodes : SeqsUpTo(PolyNodes, MaxSteps) \cup BeginLineToSeqs],
     width : {OutlineWidthInch, OutlineWidthMillimeter}]

LayerDecls ==
    [side : {"TOP", "BOTTOM"}, layerFunction : {"DOCUMENT", "CONDUCTOR", "ASSEMBLY"},
     name : {"L1", "L2"}]
    \cup {[side |-> "INTERNAL", layerFunction |-> "CONDUCTOR", name |-> "L1"],
          [side |-> "TOP", layerFunction |-> "SILKSCREEN", name |-> "L2"]}

LayerArgs == [Layer : SeqsUpTo(LayerDecls, MaxLayers)]

LineEntry(id, widths) ==
    [id |-> id, LineDesc |-> [i \in 1..Len(widths) |-> [lineWidth |-> widths[i]]]]

LineTables ==
    {<<>>,
     <<LineEntry("LW1", <<"0.1">>)>>,
     <<LineEntry("LW1", <<"0.1">>), LineEntry("LW2", <<"0.2">>)>>,
     <<LineEntry("LW2", <<"0.1">>), LineEntry("LW2", <<"0.2", "0.3">>)>>,
     <<LineEntry("LW1", <<"0.1">>), LineEntry("LW2", <<>>)>>}

Polyline(ids, nodes) ==
    [LineDescRef |-> [i \in 1..Len(ids) |-> [id |-> ids[i]]],
     childNodes |-> [i \in 1..Len(ids) |-> OtherElement("LineDescRef")] \o nodes]

Polylines ==
    {Polyline(<<"LW1">>, <<PolyBegin("0", "0"), PolyStepSegment("1", "0")>>),
     Polyline(<<"LW2">>, <<PolyBegin("0", "1"), TextNode, PolyStepSegment("1", "1"),
                           PolyStepSegment("2", "1")>>),
     Polyline(<<"LW1">>, <<PolyBegin("0", "0"), PolyStepSegment("", "0")>>),
     Polyline(<<>>, <<PolyBegin("1", "1"), PolyStepSegment("0", "0")>>)}

LayerFeatures ==
    [layerRef : {"SILK_TOP", "SILK_BOT"}, Polyline : SeqsUpTo(Polylines, MaxPolylines)]

DrawingArgs ==
    [pcb : [EntryLineDesc : LineTables,
            LayerFeature : SeqsUpTo(LayerFeatures, MaxFeatures)],
     layerName : {None, Some("SILK_TOP"), Some("ASM_TOP")}]

NSAttrs == [name : {"VALUE", "TOL"}, value : {"10k", "22k"}]

ComponentElems ==
    [refDes : {"R1"}, part : {"R1-PN", ""}, packageRef : {"0603"},
     layerRef : {"TOP"}, NonstandardAttribute : SeqsUpTo(NSAttrs, MaxAttrs)]

ComponentArgs == [pcb : [Component : SeqsUpTo(ComponentElems, MaxComponents)]]

Revisions == {"", "A", "B", "C", "D", "B2", "C1", "c", "1.0"}

Square ==
    [childNodes |-> <<PolyBegin("0", "0"), PolyStepSegment("2", "0"),
                      PolyStepSegment("2", "2"), PolyStepSegment("0", "2"),
                      PolyStepSegment("0", "0")>>]

Hole ==
    [childNodes |-> <<PolyBegin("1", "1"), TextNode, PolyStepSegment("1", "2"),
                      PolyStepSegment("1", "1")>>]

Profiles ==
    {<<>>,
     <<[Polygon |-> <<Square>>, Cutout |-> <<>>]>>,
     <<[Polygon |-> <<Square>>, Cutout |-> <<Hole>>]>>,
     <<[Polygon |-> <<Square>>, Cutout |-> <<Hole, Hole>>]>>}

DocumentsWith(wf) ==
    [wellFormed : wf,
     firstChild : [tagName : {"IPC-2581", "ODB"}, revision : Revisions],
     EntryLineDesc : {<<>>, <<LineEntry("LW1", <<"0.1">>)>>},
     EntryStandard : {<<>>, <<[id |-> "S1", Circle |-> <<>>,
                               RectCenter |-> <<[width |-> "1", height |-> "2"]>>]>>},
     Layer : {<<>>, <<[side |-> "TOP", layerFunction |-> "DOCUMENT",
                       name |-> "SILK_TOP"]>>},
     StepRef : {<<>>, <<[name |-> "board.brd"]>>},
     Profile : Profiles,
     CadHeader : {<<[units |-> u]>> : u \in {"INCH", "MILLIMETER", "MICRON", "MIL"}},
     LayerFeature : {<<>>, <<[layerRef |-> "SILK_TOP",
                              Polyline |-> <<Polyline(<<"LW1">>,
                                   <<PolyBegin("0", "0"), PolyStepSegment("1", "0")>>)>>]>>},
     Component : {<<[refDes |-> "R1", part |-> "R1-PN", packageRef |-> "0603",
                     layerRef |-> "TOP",
                     NonstandardAttribute |-> <<[name |-> "VALUE", value |-> "10k"]>>]>>}]

(* wellFormed is FALSE for a file minidom.parse rejects with ExpatError *)
ParseArgs == [file : DocumentsWith(BOOLEAN), include_tracks : BOOLEAN]

(* the methods below _parse are handed a document minidom has parsed *)
ParsedArgs == [file : DocumentsWith({TRUE}), include_tracks : BOOLEAN]

(* ============================ the state machine ======================= *)

Start(o, Args) ==
    /\ pc = "call"
    /\ op = o
    /\ arg \in Args
    /\ ret = NoResult
    /\ lines_Dict = EmptyDict

Finish(r) ==
    /\ ret' = r
    /\ pc' = "done"
    /\ UNCHANGED <<op, arg, lines_Dict>>

(* an error raised before the method under call is reached *)
Fail(r) ==
    /\ ret' = r
    /\ pc' = "failed"
    /\ UNCHANGED <<op, arg, lines_Dict>>

Call_convert_PolyStepCurve ==
    /\ pc = "call" /\ op = "convert_PolyStepCurve"
    /\ Finish(convert_PolyStepCurve(arg.startX, arg.startY, arg.ctrX, arg.ctrY,
                                    arg.endX, arg.endY, arg.cw))

Call_process_PolyStep ==
    /\ pc = "call" /\ op = "process_PolyStep"
    /\ Finish(process_PolyStep(arg.n, arg.width))

Call_get_LayerNames ==
    /\ pc = "call" /\ op = "get_LayerNames"
    /\ Finish(get_LayerNames(arg))

(* _parse line 339: the table is built first and handed to the extractor *)
Call_get_Line_Widths ==
    /\ pc = "call" /\ op = "get_LayerDrawings"
    /\ LET l == get_Line_Widths(arg.pcb) IN
       IF Raised(l) THEN Fail(l)
       ELSE /\ lines_Dict' = l.value
            /\ pc' = "lines"
            /\ UNCHANGED <<op, arg, ret>>

Call_get_LayerDrawings ==
    /\ pc = "lines" /\ op = "get_LayerDrawings"
    /\ Finish(get_LayerDrawings(arg.pcb, arg.layerName, lines_Dict))

Call_ExtractComponents ==
    /\ pc = "call" /\ op = "ExtractComponents"
    /\ Finish(Return(ExtractComponents(arg.pcb)))

Call_set_outlineWidth ==
    /\ pc = "call" /\ op = "set_outlineWidth"
    /\ Finish(set_outlineWidth(arg.file))

Call_get_Board_Outline ==
    /\ pc = "call" /\ op = "get_Board_Outline"
    /\ Finish(get_Board_Outline(arg.file))

Call_parse ==
    /\ pc = "call" /\ op = "parse"
    /\ Finish(parse(arg))

InitPoly ==
    \/ Start("convert_PolyStepCurve", CurveArgs)
    \/ Start("process_PolyStep", PolyStepArgs)

NextPoly == Call_convert_PolyStepCurve \/ Call_process_PolyStep

SpecPoly == InitPoly /\ [][NextPoly]_vars

InitLayers == Start("get_LayerNames", LayerArgs)

NextLayers == Call_get_LayerNames

SpecLayers == InitLayers /\ [][NextLayers]_vars

InitDrawings == Start("get_LayerDrawings", DrawingArgs)

NextDrawings == Call_get_Line_Widths \/ Call_get_LayerDrawings

SpecDrawings == InitDrawings /\ [][NextDrawings]_vars

InitComponents == Start("ExtractComponents", ComponentArgs)

NextComponents == Call_ExtractComponents

SpecComponents == InitComponents /\ [][NextComponents]_vars

InitParse ==
    \/ Start("set_outlineWidth", ParsedArgs)
    \/ Start("get_Board_Outline", ParsedArgs)
    \/ Start("parse", ParseArgs)

NextParse == Call_set_outlineWidth \/ Call_get_Board_Outline \/ Call_parse

SpecParse == InitParse /\ [][NextParse]_vars

Init == InitPoly \/ InitLayers \/ InitDrawings \/ InitComponents \/ InitParse

Next == NextPoly \/ NextLayers \/ NextDrawings \/ NextComponents \/ NextParse

Spec == Init /\ [][Next]_vars

(* ================================ claims ============================== *)

Done(o) == pc = "done" /\ op = o

(* C1: whenever the Document Validator fails, parse returns the 'no data' *)
(* result (None, None) to its caller; it does not end in an error raised  *)
(* by the bounding-box fold over missing data.                            *)
C1_NoDataOnInvalid ==
    (Done("parse") /\ arg.file.wellFormed /\ ~validate_IPC2581(arg.file))
        => (Returned(ret) /\ ret.value = <<None, None>>)

(* C2: set_outlineWidth returns 0.005 for INCH, 0.127 for MILLIMETER and  *)
(* 127.0 for MICRON, and ends in an InvalidUnit error for any other units *)
(* string.                                                                *)
C2_UnitResolver ==
    Done("set_outlineWidth") =>
        LET unit == arg.file.CadHeader[1].units IN
        /\ unit = "INCH" => (Returned(ret) /\ ret.value = OutlineWidthInch)
        /\ unit = "MILLIMETER" => (Returned(ret) /\ ret.value = OutlineWidthMillimeter)
        /\ unit = "MICRON" => (Returned(ret) /\ ret.value = OutlineWidthMicron)
        /\ unit \notin {"INCH", "MILLIMETER", "MICRON"}
               => (Raised(ret) /\ ret.exc = "InvalidUnit")

IsBeginLineTo(nodes) ==
    /\ Len(nodes) >= 2
    /\ nodes[1].nodeType = ELEMENT_NODE /\ nodes[1].tagName = "PolyBegin"
    /\ \A i \in 2..Len(nodes) :
          nodes[i].nodeType = ELEMENT_NODE /\ nodes[i].tagName = "PolyStepSegment"
    /\ \A i \in 1..Len(nodes) : Returned(float(nodes[i].x)) /\ Returned(float(nodes[i].y))

PointOf(node) == <<float(node.x).value, float(node.y).value>>

(* the geometry of C3: n segments in instruction order, the first starting *)
(* at the Begin point, each ending where its instruction says, and chained *)
SegmentsChain(nodes, e) ==
    /\ Len(e) = Len(nodes) - 1
    /\ \A i \in 1..Len(e) :
          /\ e[i].type = "segment"
          /\ e[i].start = PointOf(nodes[i])
          /\ e[i].end = PointOf(nodes[i + 1])
    /\ \A i \in 1..(Len(e) - 1) : e[i].end = e[i + 1].start

HasWidth(prim, w) == "width" \in DOMAIN prim /\ prim.width = w

(* C3: one Begin followed by n >= 1 LineTo yields exactly n segments in   *)
(* instruction order, the first starting at the Begin point, end[i] equal *)
(* to start[i+1], and every segment carrying a width equal to w.          *)
C3_BeginLineTo ==
    (Done("process_PolyStep") /\ IsBeginLineTo(arg.n.childNodes)) =>
        /\ Returned(ret)
        /\ SegmentsChain(arg.n.childNodes, ret.value)
        /\ \A i \in 1..Len(ret.value) : HasWidth(ret.value[i], arg.width)

OnAxis(dx, dy) == (dx = 0) # (dy = 0)

AxisRadius(dx, dy) == IF dx = 0 THEN SqrtOf(abs(dy) * abs(dy)) ELSE SqrtOf(abs(dx) * abs(dx))

AxisAngle(dx, dy) ==
    IF dx = 0 THEN (IF dy > 0 THEN 270 ELSE 90) ELSE (IF dx > 0 THEN 0 ELSE 180)

(* C4: when both spokes are axis aligned the converter returns the radius *)
(* |nonzero component|, angles from {0, 90, 180, 270} by the sign of the  *)
(* nonzero component, ordered (start, end) when clockwise and (end,       *)
(* start) when not.                                                       *)
C4_AxisAlignedArc ==
    LET dX1 == arg.ctrX - arg.startX
        dY1 == arg.ctrY - arg.startY
        dX2 == arg.ctrX - arg.endX
        dY2 == arg.ctrY - arg.endY
    IN  (Done("convert_PolyStepCurve") /\ arg.cw \in {"true", "false"}
           /\ OnAxis(dX1, dY1) /\ OnAxis(dX2, dY2)) =>
           /\ Returned(ret)
           /\ ret.value[1] = AxisRadius(dX2, dY2)
           /\ ret.value[2] = IF arg.cw = "true" THEN AxisAngle(dX1, dY1)
                             ELSE AxisAngle(dX2, dY2)
           /\ ret.value[3] = IF arg.cw = "true" THEN AxisAngle(dX2, dY2)
                             ELSE AxisAngle(dX1, dY1)

SpokeRadius(dx, dy) == SqrtOf(abs(dx) * abs(dx) + abs(dy) * abs(dy))

(* C10: when the start-spoke radius differs from the end-spoke radius the *)
(* converter accepts the input and returns the radius of the end spoke.   *)
C10_EndSpokeRadius ==
    LET dX1 == arg.ctrX - arg.startX
        dY1 == arg.ctrY - arg.startY
        dX2 == arg.ctrX - arg.endX
        dY2 == arg.ctrY - arg.endY
    IN  (Done("convert_PolyStepCurve")
           /\ SpokeRadius(dX1, dY1) # SpokeRadius(dX2, dY2)) =>
           (Returned(ret) /\ ret.value[1] = SpokeRadius(dX2, dY2))

(* the declarations of a role, and the name the last of them carries *)
RoleIndexes(layers, side, lf) ==
    {i \in 1..Len(layers) : layers[i].side = side /\ layers[i].layerFunction = lf}

LastDeclared(layers, side, lf) ==
    LET I == RoleIndexes(layers, side, lf) IN
    IF I = {} THEN None
    ELSE Some(layers[CHOOSE i \in I : \A j \in I : j <= i].name)

MapsToRole(l) ==
    l.side \in {"TOP", "BOTTOM"}
    /\ l.layerFunction \in {"DOCUMENT", "CONDUCTOR", "ASSEMBLY"}

(* the six slots once the first k declarations have been scanned *)
SlotsAfter(layers, k) ==
    LayerLoop(SubSeq(layers, 1, k), 1, LayerRoles(None, None, None, None, None, None))

(* C5: after get_LayerNames each of the six slots holds the name of the   *)
(* last declaration in document order whose (side, layerFunction) maps to *)
(* it (copper from CONDUCTOR, silkscreen from DOCUMENT, assembly from     *)
(* ASSEMBLY) and None when there is none; declarations with another side  *)
(* or layerFunction change no slot.                                       *)
C5_LastDeclarationWins ==
    Done("get_LayerNames") =>
        /\ Returned(ret)
        /\ ret.value.TopCuRef = LastDeclared(arg.Layer, "TOP", "CONDUCTOR")
        /\ ret.value.BotCuRef = LastDeclared(arg.Layer, "BOTTOM", "CONDUCTOR")
        /\ ret.value.TopSilkRef = LastDeclared(arg.Layer, "TOP", "DOCUMENT")
        /\ ret.value.BotSilkRef = LastDeclared(arg.Layer, "BOTTOM", "DOCUMENT")
        /\ ret.value.TopAsmRef = LastDeclared(arg.Layer, "TOP", "ASSEMBLY")
        /\ ret.value.BotAsmRef = LastDeclared(arg.Layer, "BOTTOM", "ASSEMBLY")
        /\ \A i \in 1..Len(arg.Layer) :
              ~MapsToRole(arg.Layer[i]) =>
                 SlotsAfter(arg.Layer, i) = SlotsAfter(arg.Layer, i - 1)

(* a role declared twice under different names, the later name kept, an *)
(* unmapped declaration present and another slot left None             *)
C5_Witness ==
    /\ Done("get_LayerNames")
    /\ Len(arg.Layer) = 3
    /\ arg.Layer[1] = [side |-> "TOP", layerFunction |-> "CONDUCTOR", name |-> "L1"]
    /\ arg.Layer[2] = [side |-> "INTERNAL", layerFunction |-> "CONDUCTOR", name |-> "L1"]
    /\ arg.Layer[3] = [side |-> "TOP", layerFunction |-> "CONDUCTOR", name |-> "L2"]
    /\ ret.value.TopCuRef = Some("L2")
    /\ ret.value.BotSilkRef = None

DanglingPolyline(pcb, layerName, lines) ==
    \E i \in 1..Len(pcb.LayerFeature) :
       /\ Some(pcb.LayerFeature[i].layerRef) = layerName
       /\ \E j \in 1..Len(pcb.LayerFeature[i].Polyline) :
             LET poly == pcb.LayerFeature[i].Polyline[j] IN
             /\ Len(poly.LineDescRef) > 0
             /\ poly.LineDescRef[1].id \notin DOMAIN lines

(* the stroke width a primitive was emitted with: a segment stores it *)
(* under the key 'wdith' (line 235), an arc under 'width' (line 244)  *)
EmittedWidth(prim) == IF prim.type = "segment" THEN prim.wdith ELSE prim.width

TableWidths(lines) == {lines[k] : k \in DOMAIN lines}

(* C6: when a polyline on the requested layer references a line-style id *)
(* that is no key of the table get_Line_Widths built, get_LayerDrawings   *)
(* ends in an error and returns no primitives; and no primitive is ever   *)
(* emitted with a width that does not come from the table.                *)
C6_DanglingReferenceRaises ==
    Done("get_LayerDrawings") =>
        /\ DanglingPolyline(arg.pcb, arg.layerName, lines_Dict) => Raised(ret)
        /\ Returned(ret) =>
              \A k \in 1..Len(ret.value) :
                 EmittedWidth(ret.value[k]) \in TableWidths(lines_Dict)

(* a table with a key, a first polyline that resolves and a second one *)
(* that references a missing id: the lookup raises KeyError            *)
C6_Witness ==
    /\ Done("get_LayerDrawings")
    /\ arg.layerName = Some("SILK_TOP")
    /\ DOMAIN lines_Dict = {"LW1"}
    /\ Len(arg.pcb.LayerFeature) = 1
    /\ arg.pcb.LayerFeature[1].layerRef = "SILK_TOP"
    /\ Len(arg.pcb.LayerFeature[1].Polyline) = 2
    /\ Len(arg.pcb.LayerFeature[1].Polyline[1].LineDescRef) = 1
    /\ arg.pcb.LayerFeature[1].Polyline[1].LineDescRef[1].id = "LW1"
    /\ Returned(process_PolyStep(arg.pcb.LayerFeature[1].Polyline[1], "0.1"))
    /\ Len(arg.pcb.LayerFeature[1].Polyline[2].LineDescRef) = 1
    /\ arg.pcb.LayerFeature[1].Polyline[2].LineDescRef[1].id = "LW2"
    /\ Raised(ret)
    /\ ret.exc = "KeyError"

ValueIndexes(attrs) == {i \in 1..Len(attrs) : attrs[i].name = "VALUE"}

LastIndex(I) == CHOOSE i \in I : \A j \in I : j <= i

NameIndexes(attrs, name) == {i \in 1..Len(attrs) : attrs[i].name = name}

DefaultWidth(unit) ==
    CASE unit = "INCH" -> OutlineWidthInch
      [] unit = "MILLIMETER" -> OutlineWidthMillimeter
      [] unit = "MICRON" -> OutlineWidthMicron

(* a primitive without its stroke width *)
Shape(prim) ==
    IF prim.type = "segment" THEN <<"segment", prim.start, prim.end>>
    ELSE <<"arc", prim.start, prim.radius, prim.startangle, prim.endangle>>

Shapes(prims) == [i \in 1..Len(prims) |-> Shape(prims[i])]

RECURSIVE CutoutShapes(_, _)
CutoutShapes(cutouts, i) ==
    IF i > Len(cutouts) THEN <<>>
    ELSE Shapes(process_PolyStep(cutouts[i], 0).value) \o CutoutShapes(cutouts, i + 1)

(* a document whose outline can be extracted: a profile with a polygon, *)
(* recognised units, and instruction sequences that reconstruct         *)
OutlineExtractable(pcb) ==
    /\ Len(pcb.Profile) > 0
    /\ Len(pcb.Profile[1].Polygon) > 0
    /\ Len(pcb.CadHeader) > 0
    /\ pcb.CadHeader[1].units \in {"INCH", "MILLIMETER", "MICRON"}
    /\ Returned(process_PolyStep(pcb.Profile[1].Polygon[1], 0))
    /\ \A i \in 1..Len(pcb.Profile[1].Cutout) :
          Returned(process_PolyStep(pcb.Profile[1].Cutout[i], 0))

(* C8: get_Board_Outline returns one sequence: the primitives of the     *)
(* outline polygon in instruction order, then those of each cutout in    *)
(* document order, every one carrying the Unit Resolver's default width. *)
C8_OutlineThenCutouts ==
    (Done("get_Board_Outline") /\ OutlineExtractable(arg.file)) =>
        /\ Returned(ret)
        /\ Shapes(ret.value)
              = Shapes(process_PolyStep(arg.file.Profile[1].Polygon[1], 0).value)
                \o CutoutShapes(arg.file.Profile[1].Cutout, 1)
        /\ \A i \in 1..Len(ret.value) :
              HasWidth(ret.value[i], DefaultWidth(arg.file.CadHeader[1].units))

(* a document the parser can otherwise read completely *)
Parseable(pcb) ==
    /\ pcb.wellFormed
    /\ validate_IPC2581(pcb)
    /\ Returned(get_Line_Widths(pcb))
    /\ Returned(get_Shapes(pcb))
    /\ Returned(get_Metadata(pcb))
    /\ OutlineExtractable(pcb)

(* C9: get_LayerDrawings with an absent layer name returns an empty       *)
(* sequence without error, so parsing a document that declares none of    *)
(* the six roles completes with empty silkscreen and fabrication drawings *)
(* for both sides.                                                        *)
C9_AbsentLayerParses ==
    (Done("parse") /\ Parseable(arg.file) /\ arg.file.Layer = <<>>) =>
        /\ get_LayerDrawings(arg.file, None, EmptyDict) = Return(<<>>)
        /\ Returned(ret)
        /\ ret.value[1] # None
        /\ ret.value[1][1].silkscreen = [F |-> <<>>, B |-> <<>>]
        /\ ret.value[1][1].fabrication = [F |-> <<>>, B |-> <<>>]

====
